---- MODULE Spec2Model ----
(***************************************************************************)
(* Model of plagiarism_checker_web.py: one analysis run of the Streamlit   *)
(* script (lines 159-207) together with read_document,                     *)
(* check_self_plagiarism, check_sentence_academic and check_sentence_web.  *)
(*                                                                         *)
(* A sentence text is abstracted to a record                               *)
(*   [nwords, upper, pad]                                                  *)
(* nwords : the number of whitespace separated words (len(s.split())),     *)
(*          which also identifies the wording;                             *)
(* upper  : the text contains upper-case letters (removed by str.lower);   *)
(* pad    : the text has leading/trailing whitespace (removed by strip).   *)
(* Two texts are the same Python string iff the records are equal.         *)
(***************************************************************************)
EXTENDS Integers, Sequences, FiniteSets

\* ---- bounds of the model ------------------------------------------------
MaxSentences == 3
MaxWords == 10
CallLatency == 1

\* ---- constants of the program --------------------------------------------
SelfMinWords == 8
ExternalMinWords == 10
WebPacingDelay == 2

MinWords == SelfMinWords

Texts == [nwords : MinWords..MaxWords, upper : BOOLEAN, pad : BOOLEAN]

RECURSIVE SeqsUpTo(_)
SeqsUpTo(n) ==
    IF n = 0 THEN {<<>>}
    ELSE LET S == SeqsUpTo(n - 1)
         IN  S \cup {Append(s, t) : s \in {x \in S : Len(x) = n - 1}, t \in Texts}

\* What the uploaded file can be: unreadable (the parser raises), readable
\* with empty text, or readable with text that sent_tokenize splits into the
\* given sentences (possibly none, for whitespace-only text).
Documents ==
    {[read |-> "error", sentences |-> <<>>], [read |-> "empty", sentences |-> <<>>]}
    \cup {[read |-> "text", sentences |-> s] : s \in SeqsUpTo(MaxSentences)}

AcademicOutcomes == {"match", "no_match", "RequestException", "KeyError"}
WebOutcomes == {"match", "no_match", "Exception"}

VARIABLES document, pc, sentences, line_num, all_matches,
          matched_sentences_for_external_check, calls, last_outcome, clock,
          error_shown, self_runs, summary

vars == <<document, pc, sentences, line_num, all_matches,
          matched_sentences_for_external_check, calls, last_outcome, clock,
          error_shown, self_runs, summary>>

\* ---- string helpers -------------------------------------------------------
strip(s) == [s EXCEPT !.pad = FALSE]

lower(s) == [s EXCEPT !.upper = FALSE]

WordCount(s) == s.nwords

Min(S) == CHOOSE x \in S : \A y \in S : x <= y

\* ---- read_document ---------------------------------------------------------
\* text is None (with st.error shown) when the parser raises, otherwise the
\* extracted text; "truthy" is Python's truth value of the returned text.
read_document(doc) ==
    IF doc.read = "error"
    THEN [truthy |-> FALSE, error |-> TRUE]
    ELSE [truthy |-> doc.read = "text", error |-> FALSE]

\* ---- check_self_plagiarism ------------------------------------------------
\* seen_sentences is a dict; it is modelled as the sequence of its items in
\* insertion order, each item [key, lines].
AppendSeen(seen, key, i) ==
    IF \E k \in 1..Len(seen) : seen[k].key = key
    THEN [k \in 1..Len(seen) |->
            IF seen[k].key = key
            THEN [seen[k] EXCEPT !.lines = Append(@, i)]
            ELSE seen[k]]
    ELSE Append(seen, [key |-> key, lines |-> <<i>>])

RECURSIVE SeenSentences(_, _, _)
SeenSentences(sents, i, seen) ==
    IF i > Len(sents) THEN seen
    ELSE LET normalized_sentence == lower(strip(sents[i]))
         IN  SeenSentences(sents, i + 1,
                 IF WordCount(normalized_sentence) > SelfMinWords
                 THEN AppendSeen(seen, normalized_sentence, i)
                 ELSE seen)

OriginalSentence(sents, sentence_key) ==
    LET hits == {k \in 1..Len(sents) : lower(strip(sents[k])) = sentence_key}
    IN  IF hits = {} THEN sentence_key ELSE sents[Min(hits)]

\* Variant of the test at line 53 that also reports a form seen only once.
IsDuplicated_AtLeastOnce(lines) == Len(lines) >= 1

IsDuplicated(lines) == Len(lines) > 1

RECURSIVE Duplicates(_, _, _, _)
Duplicates(sents, seen, k, duplicates) ==
    IF k > Len(seen) THEN duplicates
    ELSE Duplicates(sents, seen, k + 1,
            IF IsDuplicated(seen[k].lines)
            THEN Append(duplicates,
                    [sentence |-> OriginalSentence(sents, seen[k].key),
                     lines |-> seen[k].lines,
                     type |-> "Self-Plagiarism",
                     count |-> Len(seen[k].lines),
                     source_details |-> "none"])
            ELSE duplicates)

check_self_plagiarism(sents) ==
    Duplicates(sents, SeenSentences(sents, 1, <<>>), 1, <<>>)

\* ---- the analysis run -------------------------------------------------------
NoSummary ==
    [shown |-> FALSE, total_sentences |-> 0, matches_count |-> 0,
     similarity_percentage |-> 0, originality_percentage |-> 0]

Init ==
    /\ document \in Documents
    /\ pc = "start"
    /\ sentences = <<>>
    /\ line_num = 0
    /\ all_matches = <<>>
    /\ matched_sentences_for_external_check = {}
    /\ calls = <<>>
    /\ last_outcome = "none"
    /\ clock = 0
    /\ error_shown = FALSE
    /\ self_runs = 0
    /\ summary = NoSummary

\* Variant of lines 159-171 without the "if document_text" guard.
StartCheck_NoGuard ==
    /\ pc = "start"
    /\ error_shown' = read_document(document).error
    /\ sentences' = document.sentences
    /\ all_matches' = check_self_plagiarism(document.sentences)
    /\ self_runs' = self_runs + 1
    /\ line_num' = 1
    /\ pc' = "loop"
    /\ matched_sentences_for_external_check' = {}
    /\ UNCHANGED <<document, calls, last_outcome, clock, summary>>

\* Lines 159-171: read the file; when the text is truthy, segment it, run the
\* self-repetition detector and start the loop with an empty matched set.
StartCheck ==
    /\ pc = "start"
    /\ LET document_text == read_document(document)
       IN  /\ error_shown' = document_text.error
           /\ IF document_text.truthy
              THEN /\ sentences' = document.sentences
                   /\ all_matches' = check_self_plagiarism(document.sentences)
                   /\ self_runs' = self_runs + 1
                   /\ line_num' = 1
                   /\ pc' = "loop"
              ELSE /\ pc' = "done"
                   /\ UNCHANGED <<sentences, all_matches, self_runs, line_num>>
    /\ matched_sentences_for_external_check' = {}
    /\ UNCHANGED <<document, calls, last_outcome, clock, summary>>

\* Variant of line 175 that uses the self-repetition threshold.
SkipCondition_SelfThreshold(clean_sentence, matched) ==
    \/ WordCount(clean_sentence) <= SelfMinWords
    \/ clean_sentence \in matched

\* Line 175: the skip condition of the loop.
SkipCondition(clean_sentence, matched) ==
    \/ WordCount(clean_sentence) < ExternalMinWords
    \/ clean_sentence \in matched

InLoop == pc = "loop" /\ line_num <= Len(sentences)

\* Lines 173-176: continue.
SkipSentence ==
    /\ InLoop
    /\ SkipCondition(strip(sentences[line_num]), matched_sentences_for_external_check)
    /\ line_num' = line_num + 1
    /\ UNCHANGED <<document, pc, sentences, all_matches,
                   matched_sentences_for_external_check, calls, last_outcome,
                   clock, error_shown, self_runs, summary>>

\* One entry of the history of detector invocations: which detector ran for
\* which sentence, whether it returned a match, and when it ran.
Call(detector, clean_sentence, found, duration) ==
    [detector |-> detector, line |-> line_num, sentence |-> clean_sentence,
     found |-> found, start |-> clock, end |-> clock + duration]

ExternalMatch(clean_sentence, type, details) ==
    [sentence |-> clean_sentence, lines |-> <<line_num>>, type |-> type,
     count |-> 0, source_details |-> details]

\* Variant of lines 180-187 without the "continue" after an academic match:
\* the sentence is recorded and then also sent to the web detector.
CheckAcademic_NoContinue ==
    /\ InLoop
    /\ LET clean_sentence == strip(sentences[line_num])
       IN  /\ ~SkipCondition(clean_sentence, matched_sentences_for_external_check)
           /\ \E outcome \in AcademicOutcomes :
                /\ calls' = Append(calls, Call("academic", clean_sentence, outcome = "match", CallLatency))
                /\ last_outcome' = outcome
                /\ clock' = clock + CallLatency
                /\ CASE outcome = "match" ->
                          /\ all_matches' = Append(all_matches,
                                ExternalMatch(clean_sentence, "Academic Match", "paper"))
                          /\ matched_sentences_for_external_check' =
                                matched_sentences_for_external_check \cup {clean_sentence}
                          /\ pc' = "web_sleep"
                          /\ UNCHANGED line_num
                     [] outcome \in {"no_match", "RequestException"} ->
                          /\ pc' = "web_sleep"
                          /\ UNCHANGED <<all_matches, matched_sentences_for_external_check, line_num>>
                     [] OTHER ->
                          /\ pc' = "crashed"
                          /\ UNCHANGED <<all_matches, matched_sentences_for_external_check, line_num>>
    /\ UNCHANGED <<document, sentences, error_shown, self_runs, summary>>

\* Lines 61-77 and 180-187: check_sentence_academic returns the paper on a
\* match and None on no match or on a requests.RequestException; any other
\* exception (KeyError on a paper without title/url/author name, ...) is not
\* handled and ends the script run.
CheckAcademic ==
    /\ InLoop
    /\ LET clean_sentence == strip(sentences[line_num])
       IN  /\ ~SkipCondition(clean_sentence, matched_sentences_for_external_check)
           /\ \E outcome \in AcademicOutcomes :
                /\ calls' = Append(calls, Call("academic", clean_sentence, outcome = "match", CallLatency))
                /\ last_outcome' = outcome
                /\ clock' = clock + CallLatency
                /\ CASE outcome = "match" ->
                          /\ all_matches' = Append(all_matches,
                                ExternalMatch(clean_sentence, "Academic Match", "paper"))
                          /\ matched_sentences_for_external_check' =
                                matched_sentences_for_external_check \cup {clean_sentence}
                          /\ line_num' = line_num + 1
                          /\ pc' = "loop"
                     [] outcome \in {"no_match", "RequestException"} ->
                          /\ pc' = "web_sleep"
                          /\ UNCHANGED <<all_matches, matched_sentences_for_external_check, line_num>>
                     [] OTHER ->
                          /\ pc' = "crashed"
                          /\ UNCHANGED <<all_matches, matched_sentences_for_external_check, line_num>>
    /\ UNCHANGED <<document, sentences, error_shown, self_runs, summary>>

\* Variant of lines 82-83 without the time.sleep(2).
WebSleep_Skipped ==
    /\ pc = "web_sleep"
    /\ pc' = "web_search"
    /\ UNCHANGED <<document, sentences, line_num, all_matches, calls, last_outcome,
                   clock, matched_sentences_for_external_check, error_shown,
                   self_runs, summary>>

\* Lines 82-83: the blocking time.sleep(2) at the start of check_sentence_web.
WebSleep ==
    /\ pc = "web_sleep"
    /\ calls' = Append(calls, Call("sleep", strip(sentences[line_num]), FALSE, WebPacingDelay))
    /\ clock' = clock + WebPacingDelay
    /\ pc' = "web_search"
    /\ UNCHANGED <<document, sentences, line_num, all_matches, last_outcome,
                   matched_sentences_for_external_check, error_shown, self_runs, summary>>

\* Variant of lines 84-88 and 189-195 that looks the sentence up again when
\* the search found nothing.
WebSearch_Retry ==
    /\ pc = "web_search"
    /\ LET clean_sentence == strip(sentences[line_num])
       IN  \E outcome \in WebOutcomes :
             /\ calls' = Append(calls, Call("search", clean_sentence, outcome = "match", CallLatency))
             /\ last_outcome' = outcome
             /\ clock' = clock + CallLatency
             /\ IF outcome = "match"
                THEN /\ all_matches' = Append(all_matches,
                            ExternalMatch(clean_sentence, "Web Match", "url"))
                     /\ matched_sentences_for_external_check' =
                            matched_sentences_for_external_check \cup {clean_sentence}
                     /\ line_num' = line_num + 1
                     /\ pc' = "loop"
                ELSE /\ pc' = "web_sleep"
                     /\ UNCHANGED <<all_matches, matched_sentences_for_external_check, line_num>>
    /\ UNCHANGED <<document, sentences, error_shown, self_runs, summary>>

\* Lines 84-88 and 189-195: the search; every Exception becomes None.
WebSearch ==
    /\ pc = "web_search"
    /\ LET clean_sentence == strip(sentences[line_num])
       IN  \E outcome \in WebOutcomes :
             /\ calls' = Append(calls, Call("search", clean_sentence, outcome = "match", CallLatency))
             /\ last_outcome' = outcome
             /\ clock' = clock + CallLatency
             /\ IF outcome = "match"
                THEN /\ all_matches' = Append(all_matches,
                            ExternalMatch(clean_sentence, "Web Match", "url"))
                     /\ matched_sentences_for_external_check' =
                            matched_sentences_for_external_check \cup {clean_sentence}
                ELSE UNCHANGED <<all_matches, matched_sentences_for_external_check>>
    /\ line_num' = line_num + 1
    /\ pc' = "loop"
    /\ UNCHANGED <<document, sentences, error_shown, self_runs, summary>>

\* Lines 199-201 (percentages are kept as whole numbers, rounded down).
similarity_percentage(matches_count, total_sentences) ==
    IF total_sentences > 0 THEN (matches_count * 100) \div total_sentences ELSE 0

\* Lines 197-207: the loop is over; compute and show the summary.
Summarise ==
    /\ pc = "loop"
    /\ line_num > Len(sentences)
    /\ LET matches_count == Len(all_matches)
           total_sentences == Len(sentences)
           similarity == similarity_percentage(matches_count, total_sentences)
       IN  summary' = [shown |-> TRUE, total_sentences |-> total_sentences,
                       matches_count |-> matches_count,
                       similarity_percentage |-> similarity,
                       originality_percentage |-> 100 - similarity]
    /\ pc' = "done"
    /\ UNCHANGED <<document, sentences, line_num, all_matches,
                   matched_sentences_for_external_check, calls, last_outcome,
                   clock, error_shown, self_runs>>

Next ==
    \/ StartCheck
    \/ SkipSentence
    \/ CheckAcademic
    \/ WebSleep
    \/ WebSearch
    \/ Summarise

Spec == Init /\ [][Next]_vars

TypeOK ==
    /\ pc \in {"start", "loop", "web_sleep", "web_search", "done", "crashed"}
    /\ line_num \in 0..(MaxSentences + 1)
    /\ Len(sentences) <= MaxSentences

\* ---- properties ---------------------------------------------------------------
Normalized(s) == lower(strip(s))

IsSelf(m) == m.type = "Self-Plagiarism"

SelfRecords == SelectSeq(all_matches, IsSelf)

Occurrences(form) == {i \in 1..Len(sentences) : Normalized(sentences[i]) = form}

Forms == {Normalized(sentences[i]) : i \in 1..Len(sentences)}

IsWeb(c) == c.detector \in {"sleep", "search"}

\* C1: at the end of a run the result list holds at most one match record per
\* distinct normalized (trimmed, case-folded) sentence text, so a sentence with
\* a Self-Plagiarism record has no Academic Match or Web Match record.
C1_OneRecordPerNormalizedSentence ==
    pc = "done" =>
        \A j, k \in 1..Len(all_matches) :
            j # k => Normalized(all_matches[j].sentence) # Normalized(all_matches[k].sentence)

\* C2: a sentence whose normalized text was flagged by the self-repetition
\* detector is never passed to the academic detector or to the web detector.
C2_SelfFlaggedNeverQueried ==
    \A k \in 1..Len(calls) :
        \A j \in 1..Len(SelfRecords) :
            Normalized(calls[k].sentence) # Normalized(SelfRecords[j].sentence)

\* C3: no failure of an academic or web lookup aborts the analysis: after a
\* lookup that failed, the run is still on its way to the summary.
C3_NoDetectorFailureAborts ==
    last_outcome \in {"RequestException", "KeyError", "Exception"} => pc # "crashed"

\* C4: the self-repetition detector emits exactly one record for each
\* normalized form with more than 8 words occurring at more than one position
\* and none for any other form; the record's positions are exactly the 1-based
\* indices of all occurrences in strictly increasing order, its count is the
\* number of positions and its text is the first original sentence of that form.
C4_SelfRepetitionCorrect ==
    self_runs > 0 =>
        /\ \A form \in Forms :
             LET occ == Occurrences(form)
                 recs == {k \in 1..Len(SelfRecords) :
                            Normalized(SelfRecords[k].sentence) = form}
             IN  IF WordCount(form) > SelfMinWords /\ Cardinality(occ) > 1
                 THEN /\ Cardinality(recs) = 1
                      /\ \A k \in recs :
                           LET r == SelfRecords[k]
                           IN  /\ {r.lines[n] : n \in 1..Len(r.lines)} = occ
                               /\ \A n \in 1..(Len(r.lines) - 1) : r.lines[n] < r.lines[n + 1]
                               /\ r.count = Len(r.lines)
                               /\ r.count = Cardinality(occ)
                               /\ r.sentence = sentences[Min(occ)]
                 ELSE recs = {}
        /\ \A k \in 1..Len(SelfRecords) : Normalized(SelfRecords[k].sentence) \in Forms

\* C4 witness: a form occurring three times, first written with upper-case
\* letters and later without, has been reported.
C4_Witness ==
    /\ pc = "done"
    /\ Len(sentences) = 3
    /\ sentences[1].upper /\ ~sentences[2].upper
    /\ \E k \in 1..Len(SelfRecords) : Len(SelfRecords[k].lines) = 3

\* C5: a sentence with 8 or fewer words never appears in a Self-Plagiarism
\* record, and a sentence with fewer than 10 words is never passed to the
\* academic or web detector.
C5_WordThresholds ==
    /\ \A k \in 1..Len(SelfRecords) : WordCount(SelfRecords[k].sentence) > SelfMinWords
    /\ \A k \in 1..Len(calls) : WordCount(calls[k].sentence) >= ExternalMinWords

\* C5 witness: a run is over for a document with a duplicated sentence of at
\* most 8 words and a sentence of 9 words; nothing was reported or queried.
C5_Witness ==
    /\ pc = "done"
    /\ summary.shown
    /\ Len(sentences) = 3
    /\ WordCount(sentences[1]) <= SelfMinWords
    /\ Normalized(sentences[1]) = Normalized(sentences[2])
    /\ WordCount(sentences[3]) > SelfMinWords
    /\ WordCount(sentences[3]) < ExternalMinWords
    /\ all_matches = <<>>
    /\ calls = <<>>

\* C6: for each sentence the academic detector is invoked before the web
\* detector; an academic match records one Academic Match for the sentence and
\* the web detector is not invoked for that sentence, nor later in the run for
\* the same text.
C6_AcademicSuppressesWeb ==
    /\ \A k \in 1..Len(calls) :
         IsWeb(calls[k]) =>
            \E j \in 1..(k - 1) :
                /\ calls[j].detector = "academic"
                /\ calls[j].line = calls[k].line
                /\ ~calls[j].found
    /\ \A j \in 1..Len(calls) :
         (calls[j].detector = "academic" /\ calls[j].found) =>
            /\ Cardinality({m \in 1..Len(all_matches) :
                              /\ all_matches[m].type = "Academic Match"
                              /\ all_matches[m].lines = <<calls[j].line>>}) = 1
            /\ \A k \in 1..Len(calls) :
                 IsWeb(calls[k]) =>
                    /\ calls[k].line # calls[j].line
                    /\ k > j => calls[k].sentence # calls[j].sentence
    /\ \A m \in 1..Len(all_matches) :
         all_matches[m].type = "Academic Match" =>
            \A k \in 1..Len(calls) :
                IsWeb(calls[k]) => <<calls[k].line>> # all_matches[m].lines

\* C6 witness: a finished run with an academic match for one sentence and a
\* web search for another.
C6_Witness ==
    /\ pc = "done"
    /\ \E m \in 1..Len(all_matches) : all_matches[m].type = "Academic Match"
    /\ \E k \in 1..Len(calls) : calls[k].detector = "search"

\* C7: when reading the document fails, the error is shown and the run stops
\* before segmentation: no detector is invoked and neither matches nor summary
\* statistics are produced.
C7_ReadFailureStopsRun ==
    (document.read = "error" /\ pc # "start") =>
        /\ error_shown
        /\ pc = "done"
        /\ self_runs = 0
        /\ sentences = <<>>
        /\ calls = <<>>
        /\ all_matches = <<>>
        /\ ~summary.shown

\* C7 witness: the run of an unreadable document has ended with the error shown.
C7_Witness ==
    /\ document.read = "error"
    /\ pc = "done"
    /\ error_shown

\* C8: detector invocations are sequential, in ascending sentence order and do
\* not overlap; every web search is immediately preceded by its own completed
\* pacing delay, so two successive searches are at least one delay apart.
C8_SequentialAndPaced ==
    /\ \A k \in 1..(Len(calls) - 1) :
         /\ calls[k].end <= calls[k + 1].start
         /\ calls[k].line <= calls[k + 1].line
    /\ \A j, k \in 1..Len(calls) :
         (j < k /\ calls[j].detector = calls[k].detector) => calls[j].line < calls[k].line
    /\ \A k \in 1..Len(calls) :
         calls[k].detector = "search" =>
            /\ k > 1
            /\ calls[k - 1].detector = "sleep"
            /\ calls[k - 1].line = calls[k].line
            /\ calls[k - 1].end - calls[k - 1].start >= WebPacingDelay
            /\ calls[k - 1].end <= calls[k].start
    /\ \A j, k \in 1..Len(calls) :
         (j < k /\ calls[j].detector = "search" /\ calls[k].detector = "search") =>
            calls[k].start - calls[j].end >= WebPacingDelay

\* C8 witness: two web searches have been made in one run.
C8_Witness ==
    \E j, k \in 1..Len(calls) :
        j < k /\ calls[j].detector = "search" /\ calls[k].detector = "search"

\* C9: no retries: within a run no detector is invoked twice for the same
\* sentence (position) of the document, also after a failed or empty lookup.
C9_NoRetries ==
    \A j, k \in 1..Len(calls) :
        (j # k /\ calls[j].detector = calls[k].detector) => calls[j].line # calls[k].line

\* C9 witness: a web lookup failed for a sentence that is not the last one, and
\* the run went on to its end.
C9_Witness ==
    /\ pc = "done"
    /\ last_outcome = "Exception"
    /\ \E k \in 1..Len(calls) :
         /\ calls[k].detector = "search"
         /\ ~calls[k].found
         /\ calls[k].line < Len(sentences)

\* C10: the final match count never exceeds the total sentence count, so the
\* similarity and originality percentages both lie in 0..100.
C10_PercentagesInRange ==
    summary.shown =>
        /\ summary.matches_count <= summary.total_sentences
        /\ summary.similarity_percentage \in 0..100
        /\ summary.originality_percentage \in 0..100
====
